---------------------------- MODULE Spec2Model ----------------------------
(***************************************************************************)
(* DNS sync handler (.github/scripts/dns-sync.js) and its file helpers     *)
(* (.github/scripts/utils/file-utils.js).                                  *)
(*                                                                         *)
(* JavaScript strings that the code takes apart (domain strings, file      *)
(* names, paths, error messages) are sequences of one-character strings;   *)
(* a literal piece of a template string is one element of the sequence.    *)
(* Strings that are only compared or looked up (operations, statuses,      *)
(* title, actor) are TLA+ strings.  An environment variable is <<>> when   *)
(* it is not set and <<v>> when it is set to v.                            *)
(***************************************************************************)
EXTENDS Integers, Sequences, FiniteSets, TLC

VARIABLES
    env,          \* process.env, fixed for the run
    pc,           \* position of handleSync / handleManualTrigger / handlePRMerge
    triggerType,  \* const triggerType of handleSync
    prFiles,      \* PR merge: pr-files.json as it was found (<<>> while not read)
    whoisFile,    \* PR merge: the changed file returned by extractWhoisFiles
    whoisData,    \* let whoisData of the path taken (<<>> is null)
    result,       \* the collaborator's result awaiting writeResultFile
    error,        \* the error caught by handleSync, then the one it rejects with
    origin,       \* message first raised by the failing component
    disk,         \* descriptor files seen so far: path -> the three candidates
    reads,        \* readWhoisFile calls made, in order
    dnsCalls,     \* calls made to the DNS record manager, in order
    writes,       \* writeResultFile calls made, in order, with their outcome
    file,         \* content of dns-sync-result.json (<<>> while not written)
    now,          \* the clock read by new Date()
    arg,          \* argument of the function under check (pure specifications)
    ret,          \* its outcome
    previous      \* what the run before this one saw and dispatched (<<>> in a first run)

vars == <<env, pc, triggerType, prFiles, whoisFile, whoisData, result, error, origin,
          disk, reads, dnsCalls, writes, file, now, arg, ret, previous>>

-----------------------------------------------------------------------------
(* Bounds *)

MaxChars == 5       \* longest domain string handed to parseDomain on its own
MaxChangeSet == 3   \* longest change-set handed to the extractors on their own
MaxFiles == 2       \* longest change-set found in pr-files.json by a run

-----------------------------------------------------------------------------
(* JavaScript string primitives *)

StartsWith(s, p) == Len(s) >= Len(p) /\ SubSeq(s, 1, Len(p)) = p

EndsWith(s, p) == Len(s) >= Len(p) /\ SubSeq(s, Len(s) - Len(p) + 1, Len(s)) = p

\* String.prototype.indexOf, 1-based; 0 when p does not occur in s
IndexOf(s, p) ==
    LET hits == {i \in 1..(Len(s) - Len(p) + 1) : SubSeq(s, i, i + Len(p) - 1) = p}
    IN  IF hits = {} THEN 0 ELSE CHOOSE i \in hits : \A j \in hits : i <= j

\* s.replace(p, r) with a string pattern: the first occurrence only
ReplaceFirst(s, p, r) ==
    LET i == IndexOf(s, p)
    IN  IF i = 0 THEN s
        ELSE SubSeq(s, 1, i - 1) \o r \o SubSeq(s, i + Len(p), Len(s))

\* s.replace(/^p/, '')
StripPrefix(s, p) == IF StartsWith(s, p) THEN SubSeq(s, Len(p) + 1, Len(s)) ELSE s

\* s.replace(/p$/, '')
StripSuffix(s, p) == IF EndsWith(s, p) THEN SubSeq(s, 1, Len(s) - Len(p)) ELSE s

\* s.split(c): "" gives [""], "a." gives ["a", ""]
RECURSIVE Split(_, _)
Split(s, c) ==
    LET i == IndexOf(s, <<c>>)
    IN  IF i = 0 THEN <<s>>
        ELSE <<SubSeq(s, 1, i - 1)>> \o Split(SubSeq(s, i + 1, Len(s)), c)

\* parts.join(sep)
RECURSIVE Join(_, _)
Join(parts, sep) ==
    IF Len(parts) = 0 THEN <<>>
    ELSE IF Len(parts) = 1 THEN parts[1]
    ELSE parts[1] \o sep \o Join(Tail(parts), sep)

\* parts.slice(1)
Slice1(parts) == Tail(parts)

WhoisDir == <<"w", "h", "o", "i", "s", "/">>
JsonExt == <<".", "j", "s", "o", "n">>
Dot == <<".">>
Slash == <<"/">>

\* A JavaScript value handed to parseDomain
JsString(s) == [type |-> "string", val |-> s]
JsNull == [type |-> "null", val |-> <<>>]
JsUndefined == [type |-> "undefined", val |-> <<>>]
JsNumber == [type |-> "number", val |-> <<"7">>]

\* !v for the values above (a number other than 0 is truthy)
Falsy(v) == v.type \in {"null", "undefined"} \/ (v.type = "string" /\ v.val = <<>>)

-----------------------------------------------------------------------------
(* DNSSyncHandler.parseDomain *)

Returned(d, s) == [ok |-> TRUE, domain |-> d, sld |-> s, message |-> <<>>]
Thrown(m) == [ok |-> FALSE, domain |-> <<>>, sld |-> <<>>, message |-> m]

cleanDomain(domainString) == StripSuffix(StripPrefix(domainString, WhoisDir), JsonExt)

\* Mutant: with three labels only the middle one is kept as sld
parseDomainMiddleLabel(v) ==
    IF Falsy(v) \/ v.type # "string"
    THEN Thrown(<<"Domain string is required and must be a string">>)
    ELSE LET parts == Split(cleanDomain(v.val), ".")
         IN  IF Len(parts) < 2
             THEN Thrown(<<"Invalid domain format: ">> \o v.val
                            \o <<". Expected format: domain.sld">>)
             ELSE IF Len(parts) = 2 THEN Returned(parts[1], parts[2])
             ELSE IF Len(parts) = 3 THEN Returned(parts[1], parts[2])
             ELSE Returned(parts[1], Join(Slice1(parts), Dot))

parseDomain(v) ==
    IF Falsy(v) \/ v.type # "string"
    THEN Thrown(<<"Domain string is required and must be a string">>)
    ELSE LET parts == Split(cleanDomain(v.val), ".")
         IN  IF Len(parts) < 2
             THEN Thrown(<<"Invalid domain format: ">> \o v.val
                            \o <<". Expected format: domain.sld">>)
             ELSE IF Len(parts) = 2 THEN Returned(parts[1], parts[2])
             ELSE IF Len(parts) = 3 THEN Returned(parts[1], parts[2] \o Dot \o parts[3])
             ELSE Returned(parts[1], Join(Slice1(parts), Dot))

-----------------------------------------------------------------------------
(* FileUtils.extractWhoisFiles, FileUtils.extractNonRemovedWhoisFiles *)

NoFile == [filename |-> <<>>, status |-> ""]
Picked(f) == [ok |-> TRUE, file |-> f, message |-> <<>>]
Refused(m) == [ok |-> FALSE, file |-> NoFile, message |-> m]

IsWhoisJson(f) == StartsWith(f.filename, WhoisDir) /\ EndsWith(f.filename, JsonExt)

IsNonRemovedWhoisJson(f) == IsWhoisJson(f) /\ f.status # "removed"

\* whoisFiles.map(f => f.filename)
Filenames(fs) == [i \in 1..Len(fs) |-> fs[i].filename]

\* Mutant: of several candidates the first is returned
extractFirstWhoisFile(files) ==
    LET whoisFiles == SelectSeq(files, IsWhoisJson)
    IN  IF Len(whoisFiles) = 0
        THEN Refused(<<"No whois files found in PR changes">>)
        ELSE Picked(whoisFiles[1])

extractWhoisFiles(files) ==
    LET whoisFiles == SelectSeq(files, IsWhoisJson)
    IN  IF Len(whoisFiles) = 0
        THEN Refused(<<"No whois files found in PR changes">>)
        ELSE IF Len(whoisFiles) > 1
        THEN Refused(<<"Multiple whois files found in PR changes: ">>
                        \o Join(Filenames(whoisFiles), <<", ">>))
        ELSE Picked(whoisFiles[1])

extractNonRemovedWhoisFiles(files) ==
    LET whoisFiles == SelectSeq(files, IsNonRemovedWhoisJson)
    IN  IF Len(whoisFiles) = 0
        THEN Refused(<<"No non-removed whois files found in PR changes">>)
        ELSE IF Len(whoisFiles) > 1
        THEN Refused(<<"Multiple non-removed whois files found in PR changes: ">>
                        \o Join(Filenames(whoisFiles), <<", ">>))
        ELSE Picked(whoisFiles[1])

-----------------------------------------------------------------------------
(* DNSSyncHandler.mapOperationType *)

operationMap ==
    [add |-> "registration", update |-> "update", delete |-> "remove",
     registration |-> "registration", remove |-> "remove"]

\* What an object literal inherits: operationMap[k] for these keys is not
\* undefined although k is no key of the table.  The values are no strings;
\* they are written as Node prints them.
ObjectPrototype ==
    [constructor |-> "[Function: Object]", toString |-> "[Function: toString]",
     valueOf |-> "[Function: valueOf]", hasOwnProperty |-> "[Function: hasOwnProperty]",
     __proto__ |-> "[Object: null prototype] {}"]

\* operationMap[operation] || operation
mapOperationType(operation) ==
    IF operation \in DOMAIN operationMap THEN operationMap[operation]
    ELSE IF operation \in DOMAIN ObjectPrototype THEN ObjectPrototype[operation]
    ELSE operation

-----------------------------------------------------------------------------
(* FileUtils.readWhoisFile *)

\* One candidate location of a descriptor file: missing (fs.access fails),
\* ok (readable, valid JSON object `data`), badjson (readable, JSON.parse
\* throws a SyntaxError), ioerr (fs.access succeeds, fs.readFile fails with
\* a code other than ENOENT), vanished (fs.access succeeds, fs.readFile
\* fails with ENOENT).
NoData == [domain |-> <<>>, sld |-> <<>>]
Missing == [k |-> "missing", data |-> NoData]
Ok(d) == [k |-> "ok", data |-> d]
BadJson == [k |-> "badjson", data |-> NoData]
IoErr == [k |-> "ioerr", data |-> NoData]
Vanished == [k |-> "vanished", data |-> NoData]

Loaded(d, i) == [ok |-> TRUE, data |-> d, message |-> <<>>, at |-> i]
LoadFailed(m) == [ok |-> FALSE, data |-> NoData, message |-> m, at |-> 0]

\* The outer catch of readWhoisFile, file-utils.js lines 58-66
RethrowRead(filePath, c) ==
    IF c.k = "vanished"
    THEN LoadFailed(<<"Whois file not found: ">> \o filePath)
    ELSE IF c.k = "badjson"
    THEN LoadFailed(<<"Invalid JSON format in whois file: ">> \o filePath)
    ELSE LoadFailed(<<"Failed to read whois file ">> \o filePath
                       \o <<": ", "EACCES: permission denied">>)

\* Mutant: the working directory is tried before cwd/../..
readWhoisFileCwdFirst(filePath, cands) ==
    IF cands[1].k # "missing"
    THEN IF cands[1].k = "ok" THEN Loaded(cands[1].data, 1)
         ELSE RethrowRead(filePath, cands[1])
    ELSE IF cands[3].k = "ok" THEN Loaded(cands[3].data, 3)
    ELSE IF cands[2].k = "ok" THEN Loaded(cands[2].data, 2)
    ELSE LoadFailed(<<"Failed to read whois file ">> \o filePath
                       \o <<": ", "Whois file not found at any path: ">> \o filePath)

\* cands[1] is the file under the workspace root, cands[2] under
\* cwd/../.., cands[3] under cwd
readWhoisFile(filePath, cands) ==
    IF cands[1].k # "missing"
    THEN IF cands[1].k = "ok" THEN Loaded(cands[1].data, 1)
         ELSE RethrowRead(filePath, cands[1])
    ELSE IF cands[2].k = "ok" THEN Loaded(cands[2].data, 2)
    ELSE IF cands[3].k = "ok" THEN Loaded(cands[3].data, 3)
    ELSE LoadFailed(<<"Failed to read whois file ">> \o filePath
                       \o <<": ", "Whois file not found at any path: ">> \o filePath)

-----------------------------------------------------------------------------
(* FileUtils.writeResultFile *)

\* { timestamp: new Date().toISOString(), ...result }
resultData(res, t) == res @@ [timestamp |-> t]

WriteError == <<"EACCES: permission denied, open 'dns-sync-result.json'">>

-----------------------------------------------------------------------------
(* process.env *)

Unset == <<>>
Set(v) == <<v>>

\* Truthiness of an environment variable whose value is a character sequence
Truthy(o) == o # <<>> /\ o[1] # <<>>

\* Truthiness of an environment variable whose value is an atom
TruthyAtom(o) == o # <<>> /\ o[1] # ""

\* x || dflt
OrElse(o, dflt) == IF TruthyAtom(o) THEN o[1] ELSE dflt

DomainAB == <<"a", ".", "b">>
DomainA == <<"a">>
FileAB == WhoisDir \o DomainAB \o JsonExt
FileCD == <<"c", ".", "d">> \o JsonExt
PathX == <<"x">>

EnvSet ==
    [MANUAL_DOMAIN : {Unset, Set(<<>>), Set(DomainAB), Set(DomainA)},
     MANUAL_OPERATION : {Unset, Set(""), Set("add"), Set("auto")},
     MANUAL_WHOIS_FILE : {Unset, Set(FileAB), Set(FileCD)},
     FORCE_SYNC : {Unset, Set("true"), Set("false")},
     WHOIS_FILE_PATH : {Unset, Set(PathX)},
     PR_TITLE : {Unset, Set(""), Set("T")},
     OPERATION : {Unset, Set("auto"), Set("delete")},
     GITHUB_ACTOR : {Unset, Set("u")}]

\* Descriptor files' content
DescAB == [domain |-> <<"a">>, sld |-> <<"b">>, operation |-> "update"]
DescZB == [domain |-> <<"z">>, sld |-> <<"b">>]

\* What the three candidate locations of one path may hold
DiskStates ==
    {<<Ok(DescAB), Missing, Missing>>, <<Ok(DescZB), Ok(DescAB), Missing>>,
     <<BadJson, Ok(DescAB), Ok(DescAB)>>, <<IoErr, Missing, Ok(DescZB)>>,
     <<Missing, Ok(DescAB), Ok(DescZB)>>, <<Missing, BadJson, Ok(DescZB)>>,
     <<Missing, Missing, Missing>>, <<Missing, Vanished, BadJson>>}

\* pr-files.json in the working directory
ChangedFiles ==
    [filename : {FileAB, WhoisDir \o DomainA \o JsonExt, <<"R", "E", "A", "D", "M", "E">>},
     status : {"added", "removed"}]

RECURSIVE SeqsUpTo(_, _)
SeqsUpTo(S, n) ==
    IF n = 0 THEN {<<>>}
    ELSE LET shorter == SeqsUpTo(S, n - 1)
         IN  shorter \cup {Append(s, x) : s \in shorter, x \in S}

PrFilesAbsent == [k |-> "absent", files |-> <<>>]
PrFilesBad == [k |-> "bad", files |-> <<>>]
PrFilesStates ==
    {PrFilesAbsent, PrFilesBad}
        \cup {[k |-> "ok", files |-> fs] : fs \in SeqsUpTo(ChangedFiles, MaxFiles)}

\* The result of the DNS record manager (services/dns-record-manager)
DnsResults == {[success |-> TRUE], [success |-> FALSE]}
DnsError == <<"DNS provider request failed">>

-----------------------------------------------------------------------------
(* DNSSyncHandler.handleSync and the two paths.  One action per stretch of   *)
(* code between two awaited calls; pc names the stretch that runs next.      *)

\* throw new Error(m) inside the try of handleSync; `by` is the component
\* that failed and o the message it raised first
Throw(m, by, o) ==
    pc' = "catch" /\ error' = m /\ origin' = [by |-> by, message |-> o]

Goto(p) == pc' = p /\ UNCHANGED <<error, origin>>

\* await FileUtils.readWhoisFile(path), the file system answering with c
Observe(path, c) ==
    /\ c \in DiskStates
    /\ path \in DOMAIN disk => c = disk[path]
    /\ disk' = (path :> c) @@ disk

ReadEntry(path, r) == [path |-> path, ok |-> r.ok, data |-> r.data, message |-> r.message]

\* Mutant: the manual-whois-file input selects the manual path as well
determineTriggerTypeByFile(e) ==
    IF Truthy(e.MANUAL_DOMAIN) \/ TruthyAtom(e.MANUAL_OPERATION)
          \/ Truthy(e.MANUAL_WHOIS_FILE)
    THEN "manual" ELSE "pr_merge"

determineTriggerType(e) ==
    IF Truthy(e.MANUAL_DOMAIN) \/ TruthyAtom(e.MANUAL_OPERATION)
    THEN "manual" ELSE "pr_merge"

\* Mutant: any non-empty value of FORCE_SYNC sets the flag
forceSyncTruthy(e) == TruthyAtom(e.FORCE_SYNC)

forceSync(e) == e.FORCE_SYNC = Set("true")

\* dns-sync.js lines 63-73
DetermineTrigger ==
    /\ pc = "start"
    /\ triggerType' = determineTriggerType(env)
    /\ Goto(triggerType')
    /\ now' = now + 1
    /\ UNCHANGED <<env, prFiles, whoisFile, whoisData, result, disk, reads,
                   dnsCalls, writes, file, arg, ret, previous>>

\* Mutant: the parameters are not validated
ManualValidateSkipped ==
    /\ pc = "manual"
    /\ Goto("manual_file")
    /\ now' = now + 1
    /\ UNCHANGED <<env, triggerType, prFiles, whoisFile, whoisData, result, disk,
                   reads, dnsCalls, writes, file, arg, ret, previous>>

\* dns-sync.js lines 107-122
ManualValidate ==
    /\ pc = "manual"
    /\ IF ~Truthy(env.MANUAL_DOMAIN) /\ ~Truthy(env.MANUAL_WHOIS_FILE)
       THEN LET m == <<"Either MANUAL_DOMAIN or MANUAL_WHOIS_FILE must be provided for manual trigger">>
            IN  Throw(m, "input", m)
       ELSE Goto("manual_file")
    /\ now' = now + 1
    /\ UNCHANGED <<env, triggerType, prFiles, whoisFile, whoisData, result, disk,
                   reads, dnsCalls, writes, file, arg, ret, previous>>

\* dns-sync.js lines 129-135
manualFullPath(e) ==
    LET f == e.MANUAL_WHOIS_FILE[1]
    IN  IF Truthy(e.WHOIS_FILE_PATH)
        THEN e.WHOIS_FILE_PATH[1] \o Slash \o ReplaceFirst(f, WhoisDir, <<>>)
        ELSE IF StartsWith(f, WhoisDir) THEN f ELSE WhoisDir \o f

\* dns-sync.js lines 153-159
manualDomainFile(e) ==
    IF Truthy(e.WHOIS_FILE_PATH)
    THEN e.WHOIS_FILE_PATH[1] \o Slash \o e.MANUAL_DOMAIN[1] \o JsonExt
    ELSE WhoisDir \o e.MANUAL_DOMAIN[1] \o JsonExt

\* dns-sync.js line 146
manualFileError(fullPath, m) ==
    <<"Failed to read WHOIS file ">> \o fullPath \o <<": ">> \o m

\* Mutant: the cause is left out of the new error
manualDomainErrorWithoutCause(domain, m) ==
    <<"Failed to read WHOIS file for domain ">> \o domain

\* dns-sync.js line 169
manualDomainError(domain, m) ==
    <<"Failed to read WHOIS file for domain ">> \o domain \o <<": ">> \o m

\* Mutant: a failed read of the referenced file is always downgraded
ManualReadFileLenient ==
    /\ pc = "manual_file"
    /\ IF Truthy(env.MANUAL_WHOIS_FILE)
       THEN \E c \in DiskStates :
              LET fullPath == manualFullPath(env)
                  r == readWhoisFile(fullPath, c)
              IN  /\ Observe(fullPath, c)
                  /\ reads' = Append(reads, ReadEntry(fullPath, r))
                  /\ whoisData' = IF r.ok THEN <<r.data>> ELSE <<>>
                  /\ Goto("manual_domain")
       ELSE /\ whoisData' = <<>>
            /\ Goto("manual_domain")
            /\ UNCHANGED <<disk, reads>>
    /\ now' = now + 1
    /\ UNCHANGED <<env, triggerType, prFiles, whoisFile, result, dnsCalls, writes,
                   file, arg, ret, previous>>

\* dns-sync.js lines 124-149
ManualReadFile ==
    /\ pc = "manual_file"
    /\ IF Truthy(env.MANUAL_WHOIS_FILE)
       THEN \E c \in DiskStates :
              LET fullPath == manualFullPath(env)
                  r == readWhoisFile(fullPath, c)
              IN  /\ Observe(fullPath, c)
                  /\ reads' = Append(reads, ReadEntry(fullPath, r))
                  /\ IF r.ok
                     THEN whoisData' = <<r.data>> /\ Goto("manual_domain")
                     ELSE /\ whoisData' = <<>>
                          /\ IF forceSync(env)
                             THEN Goto("manual_domain")
                             ELSE Throw(manualFileError(fullPath, r.message),
                                        "loader", r.message)
       ELSE /\ whoisData' = <<>>
            /\ Goto("manual_domain")
            /\ UNCHANGED <<disk, reads>>
    /\ now' = now + 1
    /\ UNCHANGED <<env, triggerType, prFiles, whoisFile, result, dnsCalls, writes,
                   file, arg, ret, previous>>

\* dns-sync.js lines 151-172
ManualReadDomain ==
    /\ pc = "manual_domain"
    /\ IF Truthy(env.MANUAL_DOMAIN) /\ whoisData = <<>>
       THEN \E c \in DiskStates :
              LET domainFile == manualDomainFile(env)
                  r == readWhoisFile(domainFile, c)
              IN  /\ Observe(domainFile, c)
                  /\ reads' = Append(reads, ReadEntry(domainFile, r))
                  /\ IF r.ok
                     THEN whoisData' = <<r.data>> /\ Goto("manual_dispatch")
                     ELSE /\ UNCHANGED whoisData
                          /\ IF forceSync(env)
                             THEN Goto("manual_dispatch")
                             ELSE Throw(manualDomainError(env.MANUAL_DOMAIN[1], r.message),
                                        "loader", r.message)
       ELSE /\ Goto("manual_dispatch")
            /\ UNCHANGED <<whoisData, disk, reads>>
    /\ now' = now + 1
    /\ UNCHANGED <<env, triggerType, prFiles, whoisFile, result, dnsCalls, writes,
                   file, arg, ret, previous>>

\* Mutant: a call that throws is made a second time
CallDnsRetried(call) ==
    \/ /\ dnsCalls' = Append(dnsCalls, call)
       /\ \E res \in DnsResults : result' = <<res>> /\ Goto("write")
    \/ /\ dnsCalls' = dnsCalls \o <<call, call>>
       /\ UNCHANGED result /\ Throw(DnsError, "dns", DnsError)

\* await this.dnsManager.handleManualSync(...) / handlePRMerge(...): the call
\* is recorded; the collaborator returns a result or throws
CallDns(call) ==
    /\ dnsCalls' = Append(dnsCalls, call)
    /\ \/ \E res \in DnsResults : result' = <<res>> /\ Goto("write")
       \/ UNCHANGED result /\ Throw(DnsError, "dns", DnsError)

\* Mutant: the options carry the requested operation as given
manualCallUnmapped(e, data) ==
    [method |-> "handleManualSync",
     title |-> OrElse(e.PR_TITLE, "Manual DNS Sync"),
     descriptor |-> data,
     options |-> <<[operation |-> OrElse(e.MANUAL_OPERATION, "auto"),
                    forceSync |-> forceSync(e),
                    triggeredBy |-> OrElse(e.GITHUB_ACTOR, "unknown")]>>]

\* dns-sync.js lines 193-201
manualCall(e, data) ==
    [method |-> "handleManualSync",
     title |-> OrElse(e.PR_TITLE, "Manual DNS Sync"),
     descriptor |-> data,
     options |-> <<[operation |-> mapOperationType(OrElse(e.MANUAL_OPERATION, "auto")),
                    forceSync |-> forceSync(e),
                    triggeredBy |-> OrElse(e.GITHUB_ACTOR, "unknown")]>>]

\* dns-sync.js lines 174-201
ManualDispatch ==
    /\ pc = "manual_dispatch"
    /\ IF whoisData = <<>> /\ Truthy(env.MANUAL_DOMAIN)
       THEN LET p == parseDomain(JsString(env.MANUAL_DOMAIN[1]))
            IN  IF p.ok
                THEN /\ whoisData' = <<[domain |-> p.domain, sld |-> p.sld,
                                        operation |-> OrElse(env.MANUAL_OPERATION, "auto")]>>
                     /\ CallDns(manualCall(env, whoisData'))
                ELSE /\ Throw(p.message, "parser", p.message)
                     /\ UNCHANGED <<whoisData, dnsCalls, result>>
       ELSE /\ UNCHANGED whoisData
            /\ CallDns(manualCall(env, whoisData))
    /\ now' = now + 1
    /\ UNCHANGED <<env, triggerType, prFiles, whoisFile, disk, reads, writes, file,
                   arg, ret, previous>>

\* Mutant: the change-set is loaded before the title is looked at
PRBeginLoadFirst ==
    /\ pc = "pr_merge"
    /\ \E found \in PrFilesStates :
          /\ prFiles # <<>> => found = prFiles[1]
          /\ prFiles' = <<found>>
          /\ IF ~TruthyAtom(env.PR_TITLE)
             THEN LET m == <<"PR_TITLE environment variable is required">>
                  IN  Throw(m, "input", m) /\ UNCHANGED whoisFile
             ELSE IF found.k = "bad"
             THEN LET m == <<"Unexpected token } in JSON at position 1">>
                  IN  /\ Throw(<<"Failed to read PR files: ">> \o m, "changeset", m)
                      /\ UNCHANGED whoisFile
             ELSE LET x == extractWhoisFiles(found.files)
                  IN  IF x.ok
                      THEN /\ whoisFile' = x.file
                           /\ Goto(IF x.file.status = "removed"
                                   THEN "pr_removed" ELSE "pr_other")
                      ELSE Throw(x.message, "extractor", x.message)
                           /\ UNCHANGED whoisFile
    /\ now' = now + 1
    /\ UNCHANGED <<env, triggerType, whoisData, result, disk, reads, dnsCalls,
                   writes, file, arg, ret, previous>>

\* dns-sync.js lines 213-252
PRBegin ==
    /\ pc = "pr_merge"
    /\ IF ~TruthyAtom(env.PR_TITLE)
       THEN LET m == <<"PR_TITLE environment variable is required">>
            IN  Throw(m, "input", m) /\ UNCHANGED <<prFiles, whoisFile>>
       ELSE \E found \in PrFilesStates :
              /\ prFiles # <<>> => found = prFiles[1]
              /\ prFiles' = <<found>>
              /\ IF found.k = "bad"
                 THEN LET m == <<"Unexpected token } in JSON at position 1">>
                      IN  /\ Throw(<<"Failed to read PR files: ">> \o m, "changeset", m)
                          /\ UNCHANGED whoisFile
                 ELSE LET x == extractWhoisFiles(found.files)
                      IN  IF x.ok
                          THEN /\ whoisFile' = x.file
                               /\ Goto(IF x.file.status = "removed"
                                       THEN "pr_removed" ELSE "pr_other")
                          ELSE Throw(x.message, "extractor", x.message)
                               /\ UNCHANGED whoisFile
    /\ now' = now + 1
    /\ UNCHANGED <<env, triggerType, whoisData, result, disk, reads, dnsCalls,
                   writes, file, arg, ret, previous>>

\* dns-sync.js lines 267-268 and 298-303
extractedFilePath(e, filename) ==
    e.WHOIS_FILE_PATH[1] \o Slash \o ReplaceFirst(filename, WhoisDir, <<>>)

\* dns-sync.js lines 255-281
PRRemovedRead ==
    /\ pc = "pr_removed"
    /\ LET p == parseDomain(JsString(whoisFile.filename))
       IN  IF ~p.ok
           THEN Throw(p.message, "parser", p.message)
                /\ UNCHANGED <<whoisData, disk, reads>>
           ELSE IF Truthy(env.WHOIS_FILE_PATH)
           THEN \E c \in DiskStates :
                  LET path == extractedFilePath(env, whoisFile.filename)
                      r == readWhoisFile(path, c)
                  IN  /\ Observe(path, c)
                      /\ reads' = Append(reads, ReadEntry(path, r))
                      /\ whoisData' = IF r.ok THEN <<r.data>> ELSE <<>>
                      /\ Goto("pr_delete")
           ELSE /\ whoisData' = <<>>
                /\ Goto("pr_delete")
                /\ UNCHANGED <<disk, reads>>
    /\ now' = now + 1
    /\ UNCHANGED <<env, triggerType, prFiles, whoisFile, result, dnsCalls, writes,
                   file, arg, ret, previous>>

\* Mutant: domain and sld are taken from the content read, when there is one
deletionCallFromContent(e, filename, data) ==
    LET p == parseDomain(JsString(filename))
        request == IF data # <<>>
                   THEN [domain |-> data[1].domain, sld |-> data[1].sld,
                         operation |-> "delete"]
                   ELSE [domain |-> p.domain, sld |-> p.sld, operation |-> "delete"]
    IN  [method |-> "handlePRMerge",
         title |-> e.PR_TITLE[1],
         descriptor |-> <<IF data # <<>>
                          THEN request @@ [originalData |-> data[1]]
                          ELSE request>>,
         options |-> <<>>]

\* dns-sync.js lines 284-289
deletionCall(e, filename, data) ==
    LET p == parseDomain(JsString(filename))
        request == [domain |-> p.domain, sld |-> p.sld, operation |-> "delete"]
    IN  [method |-> "handlePRMerge",
         title |-> e.PR_TITLE[1],
         descriptor |-> <<IF data # <<>>
                          THEN request @@ [originalData |-> data[1]]
                          ELSE request>>,
         options |-> <<>>]

\* Mutant: the request carries what the result file holds
PRDeleteWithLastResult ==
    /\ pc = "pr_delete"
    /\ CallDns([deletionCall(env, whoisFile.filename, whoisData) EXCEPT !.options = file])
    /\ now' = now + 1
    /\ UNCHANGED <<env, triggerType, prFiles, whoisFile, whoisData, disk, reads,
                   writes, file, arg, ret, previous>>

\* dns-sync.js lines 283-289
PRDelete ==
    /\ pc = "pr_delete"
    /\ CallDns(deletionCall(env, whoisFile.filename, whoisData))
    /\ now' = now + 1
    /\ UNCHANGED <<env, triggerType, prFiles, whoisFile, whoisData, disk, reads,
                   writes, file, arg, ret, previous>>

\* Mutant: the override is written without being mapped
overrideOperationUnmapped(e, data) ==
    LET operation == OrElse(e.OPERATION, "auto")
    IN  IF operation # "auto"
        THEN [operation |-> operation] @@ data
        ELSE data

\* whoisData.operation = this.mapOperationType(operation), lines 309-312
overrideOperation(e, data) ==
    LET operation == OrElse(e.OPERATION, "auto")
    IN  IF operation # "auto"
        THEN [operation |-> mapOperationType(operation)] @@ data
        ELSE data

\* dns-sync.js lines 296-312
PROtherRead ==
    /\ pc = "pr_other"
    /\ \E c \in DiskStates :
         LET filePath == IF Truthy(env.WHOIS_FILE_PATH)
                         THEN extractedFilePath(env, whoisFile.filename)
                         ELSE whoisFile.filename
             r == readWhoisFile(filePath, c)
         IN  /\ Observe(filePath, c)
             /\ reads' = Append(reads, ReadEntry(filePath, r))
             /\ IF r.ok
                THEN /\ whoisData' = <<overrideOperation(env, r.data)>>
                     /\ Goto("pr_dispatch")
                ELSE /\ UNCHANGED whoisData
                     /\ Throw(r.message, "loader", r.message)
    /\ now' = now + 1
    /\ UNCHANGED <<env, triggerType, prFiles, whoisFile, result, dnsCalls, writes,
                   file, arg, ret, previous>>

\* dns-sync.js lines 314-315
PRDispatch ==
    /\ pc = "pr_dispatch"
    /\ CallDns([method |-> "handlePRMerge", title |-> env.PR_TITLE[1],
                descriptor |-> whoisData, options |-> <<>>])
    /\ now' = now + 1
    /\ UNCHANGED <<env, triggerType, prFiles, whoisFile, whoisData, disk, reads,
                   writes, file, arg, ret, previous>>

\* await FileUtils.writeResultFile(r), fs.writeFile succeeding or not
WriteFile(r, ok) ==
    /\ writes' = Append(writes, [rec |-> resultData(r, now), ok |-> ok])
    /\ file' = IF ok THEN <<resultData(r, now)>> ELSE file

\* Mutant: a result that was written is written a second time
WriteResultAgain ==
    /\ pc = "write"
    /\ writes' = writes \o <<[rec |-> resultData(result[1], now), ok |-> TRUE],
                             [rec |-> resultData(result[1], now), ok |-> TRUE]>>
    /\ file' = <<resultData(result[1], now)>>
    /\ Goto("resolved")
    /\ now' = now + 1
    /\ UNCHANGED <<env, triggerType, prFiles, whoisFile, whoisData, result, disk,
                   reads, dnsCalls, arg, ret, previous>>

\* dns-sync.js lines 203-207, 291-295, 317-321: write the result, return it
WriteResult ==
    /\ pc = "write"
    /\ \E ok \in BOOLEAN :
         /\ WriteFile(result[1], ok)
         /\ IF ok THEN Goto("resolved") ELSE Throw(WriteError, "writer", WriteError)
    /\ now' = now + 1
    /\ UNCHANGED <<env, triggerType, prFiles, whoisFile, whoisData, result, disk,
                   reads, dnsCalls, arg, ret, previous>>

\* const errorResult = {...}, dns-sync.js lines 79-84
errorResult(e, err, t) ==
    [success |-> FALSE, error |-> err, timestamp |-> t,
     triggerType |-> determineTriggerType(e)]

\* Mutant: the error is thrown again before the error result is written
CatchRethrowFirst ==
    /\ pc = "catch"
    /\ pc' = "rejected"
    /\ now' = now + 1
    /\ UNCHANGED <<env, triggerType, prFiles, whoisFile, whoisData, result, error,
                   origin, disk, reads, dnsCalls, writes, file, arg, ret, previous>>

\* dns-sync.js lines 75-88: the catch of handleSync.  When the write of the
\* error result throws, that error leaves the catch block instead of `error`.
Catch ==
    /\ pc = "catch"
    /\ \E ok \in BOOLEAN :
         /\ WriteFile(errorResult(env, error, now), ok)
         /\ error' = IF ok THEN error ELSE WriteError
    /\ pc' = "rejected"
    /\ now' = now + 1
    /\ UNCHANGED <<env, triggerType, prFiles, whoisFile, whoisData, result, origin,
                   disk, reads, dnsCalls, arg, ret, previous>>

-----------------------------------------------------------------------------
(* One run of `node dns-sync.js` *)

NoError == <<>>
NoOrigin == [by |-> "", message |-> <<>>]

Idle ==
    /\ triggerType = ""
    /\ prFiles = <<>>
    /\ whoisFile = NoFile
    /\ whoisData = <<>>
    /\ result = <<>>
    /\ error = NoError
    /\ origin = NoOrigin
    /\ disk = <<>>
    /\ reads = <<>>
    /\ dnsCalls = <<>>
    /\ writes = <<>>
    /\ file = <<>>
    /\ now = 0
    /\ previous = <<>>

Init ==
    /\ env \in EnvSet
    /\ pc = "start"
    /\ Idle
    /\ arg = <<>>
    /\ ret = <<>>

Next ==
    \/ DetermineTrigger
    \/ ManualValidate
    \/ ManualReadFile
    \/ ManualReadDomain
    \/ ManualDispatch
    \/ PRBegin
    \/ PRRemovedRead
    \/ PRDelete
    \/ PROtherRead
    \/ PRDispatch
    \/ WriteResult
    \/ Catch

Spec == Init /\ [][Next]_vars

-----------------------------------------------------------------------------
(* parseDomain on its own: one call on each input *)

\* No run of handleSync is under way
NoRun ==
    /\ env = [MANUAL_DOMAIN |-> Unset, MANUAL_OPERATION |-> Unset,
              MANUAL_WHOIS_FILE |-> Unset, FORCE_SYNC |-> Unset,
              WHOIS_FILE_PATH |-> Unset, PR_TITLE |-> Unset, OPERATION |-> Unset,
              GITHUB_ACTOR |-> Unset]
    /\ Idle

DomainStrings ==
    LET bodies == SeqsUpTo({"a", "k", "."}, MaxChars)
    IN  bodies
          \cup {WhoisDir \o b : b \in bodies}
          \cup {b \o JsonExt : b \in bodies}
          \cup {WhoisDir \o b \o JsonExt : b \in bodies}
          \cup {<<"x">> \o WhoisDir \o b : b \in bodies}
          \cup {b \o JsonExt \o <<"x">> : b \in bodies}

ParseInputs == {JsNull, JsUndefined, JsNumber} \cup {JsString(d) : d \in DomainStrings}

InitParse ==
    /\ NoRun
    /\ pc = "call"
    /\ arg \in ParseInputs
    /\ ret = <<>>

CallParseDomain ==
    /\ pc = "call"
    /\ ret' = <<parseDomain(arg)>>
    /\ pc' = "returned"
    /\ UNCHANGED <<env, triggerType, prFiles, whoisFile, whoisData, result, error,
                   origin, disk, reads, dnsCalls, writes, file, now, arg, previous>>

NextParse == CallParseDomain

SpecParse == InitParse /\ [][NextParse]_vars

\* Number of '.' characters of a string
Dots(s) == Cardinality({i \in 1..Len(s) : s[i] = "."})

\* C9: parseDomain throws exactly when its input is not a non-empty string or
\* the cleaned input (leading whois/ and trailing .json stripped) holds no
\* dot, that is fewer than two dot-separated labels; otherwise domain is the
\* first label (it holds no dot) and domain + '.' + sld is the cleaned input.
C9_ParseDomainContract ==
    pc = "returned" =>
        LET r == ret[1]
            isString == arg.type = "string" /\ Len(arg.val) > 0
            clean == IF isString THEN cleanDomain(arg.val) ELSE <<>>
        IN  /\ ~r.ok <=> (~isString \/ Dots(clean) = 0)
            /\ r.ok => /\ Dots(r.domain) = 0
                       /\ r.domain \o Dot \o r.sld = clean
                       /\ Dots(r.sld) = Dots(clean) - 1

\* C9 witness: a three-label file name has been parsed into its first label
\* and the two remaining labels
C9_Witness ==
    /\ pc = "returned"
    /\ arg = JsString(WhoisDir \o <<"a", ".", "k", ".", "a">> \o JsonExt)
    /\ ret[1].ok
    /\ ret[1].domain = <<"a">>
    /\ ret[1].sld = <<"k", ".", "a">>

\* C10: every DomainReference returned by parseDomain has a non-empty domain
\* and a non-empty sld
C10_NonEmptyFields ==
    (pc = "returned" /\ ret[1].ok) => (ret[1].domain # <<>> /\ ret[1].sld # <<>>)

-----------------------------------------------------------------------------
(* The change-set extractors on their own: one call on each change-set *)

ExtractFilenames ==
    {FileAB, WhoisDir \o DomainA \o JsonExt, WhoisDir \o DomainA,
     DomainAB \o JsonExt, <<"R", "E", "A", "D", "M", "E">>}

ExtractInputs ==
    SeqsUpTo([filename : ExtractFilenames, status : {"added", "modified", "removed"}],
             MaxChangeSet)

InitExtract ==
    /\ NoRun
    /\ pc = "call"
    /\ arg \in ExtractInputs
    /\ ret = <<>>

CallExtractAll ==
    /\ pc = "call"
    /\ ret' = <<extractWhoisFiles(arg)>>
    /\ pc' = "returned_all"
    /\ UNCHANGED <<env, triggerType, prFiles, whoisFile, whoisData, result, error,
                   origin, disk, reads, dnsCalls, writes, file, now, arg, previous>>

CallExtractNonRemoved ==
    /\ pc = "call"
    /\ ret' = <<extractNonRemovedWhoisFiles(arg)>>
    /\ pc' = "returned_non_removed"
    /\ UNCHANGED <<env, triggerType, prFiles, whoisFile, whoisData, result, error,
                   origin, disk, reads, dnsCalls, writes, file, now, arg, previous>>

NextExtract == CallExtractAll \/ CallExtractNonRemoved

SpecExtract == InitExtract /\ [][NextExtract]_vars

\* Positions of the change-set whose file name lies under whois/ and ends
\* in .json (and, for the non-removed variant, whose status is not removed)
Candidates(files, nonRemoved) ==
    {i \in 1..Len(files) :
        /\ Len(files[i].filename) >= 11
        /\ SubSeq(files[i].filename, 1, 6) = <<"w", "h", "o", "i", "s", "/">>
        /\ SubSeq(files[i].filename, Len(files[i].filename) - 4, Len(files[i].filename))
              = <<".", "j", "s", "o", "n">>
        /\ nonRemoved => files[i].status # "removed"}

\* The contract of one extractor call, given the candidate positions
ExtractContract(r, cand, none) ==
    /\ r.ok <=> Cardinality(cand) = 1
    /\ r.ok => \E i \in cand : r.file = arg[i]
    /\ Cardinality(cand) = 0 => r.message = <<none>>
    /\ Cardinality(cand) > 1 =>
          /\ r.message # <<none>>
          /\ \A i \in cand : IndexOf(r.message, arg[i].filename) # 0

\* C8: each extractor returns a file only when exactly one candidate remains,
\* and then that candidate; with no candidate it fails with the no-file error,
\* with several it fails with an error whose message names every candidate.
C8_SingleCandidate ==
    /\ pc = "returned_all" =>
          ExtractContract(ret[1], Candidates(arg, FALSE),
                          "No whois files found in PR changes")
    /\ pc = "returned_non_removed" =>
          ExtractContract(ret[1], Candidates(arg, TRUE),
                          "No non-removed whois files found in PR changes")

\* C8 witness: three candidates, one of them removed: the "all" variant has
\* refused the change-set and named the three files
C8_Witness ==
    /\ pc = "returned_all"
    /\ Cardinality(Candidates(arg, FALSE)) = 3
    /\ Cardinality(Candidates(arg, TRUE)) = 2
    /\ ~ret[1].ok
    /\ \A i \in 1..3 : IndexOf(ret[1].message, arg[i].filename) # 0

-----------------------------------------------------------------------------
(* Properties of a run of handleSync *)

\* handleSync has settled: its promise is resolved or rejected
Settled == pc \in {"resolved", "rejected"}

Last(q) == q[Len(q)]

\* Positions of the writes that succeeded
Persisted == {i \in 1..Len(writes) : writes[i].ok}

\* A record of the shape {success:false, error, timestamp, triggerType}
IsFailureRecord(rec) ==
    /\ DOMAIN rec = {"success", "error", "timestamp", "triggerType"}
    /\ rec.success = FALSE

C3_OriginalMessage ==
    (pc = "rejected" /\ Last(writes).ok
        /\ origin.by \in {"parser", "loader", "extractor", "dns"})
    => (error = origin.message /\ file[1].error = origin.message)

\* C3 amended: the record's error field and the error rejected with carry the
\* same message; it is the component's own message for the domain parser,
\* the change-set extractor, the DNS collaborator, the input checks, the
\* result writer and a PR-merge descriptor load; a manual-path descriptor load
\* that fails is rewrapped as "Failed to read WHOIS file <path>: <message>"
\* or "Failed to read WHOIS file for domain <domain>: <message>", and an
\* unreadable pr-files.json as "Failed to read PR files: <message>".
C3_MessageAmended ==
    (pc = "rejected" /\ Last(writes).ok) =>
        /\ file[1].error = error
        /\ (origin.by = "loader" /\ triggerType = "manual") =>
              /\ error # origin.message
              /\ EndsWith(error, <<": ">> \o origin.message)
              /\ error[1] \in {"Failed to read WHOIS file ",
                               "Failed to read WHOIS file for domain "}
        /\ origin.by = "changeset" =>
              error = <<"Failed to read PR files: ">> \o origin.message
        /\ (origin.by \in {"parser", "extractor", "dns", "input", "writer"}
              \/ (origin.by = "loader" /\ triggerType = "pr_merge")) =>
              error = origin.message

\* C3 witness: a manual run without force sync has failed to load the
\* descriptor named after the domain string and has written its record
C3_Witness ==
    /\ pc = "rejected"
    /\ Last(writes).ok
    /\ triggerType = "manual"
    /\ origin.by = "loader"
    /\ error[1] = "Failed to read WHOIS file for domain "
    /\ file[1].error = error

\* The manual-domain or the manual-operation input is present and non-empty
ManualInputPresent ==
    \/ env.MANUAL_DOMAIN \notin {Unset, Set(<<>>)}
    \/ env.MANUAL_OPERATION \notin {Unset, Set("")}

ManualSteps == {"manual", "manual_file", "manual_domain", "manual_dispatch"}
PRMergeSteps == {"pr_merge", "pr_removed", "pr_other", "pr_delete", "pr_dispatch"}

\* C4: the manual path is taken exactly when the manual-domain or the
\* manual-operation input is present and non-empty, the PR-merge path
\* otherwise; the triggerType of every failure record is the path taken.
C4_TriggerSelection ==
    LET taken == IF ManualInputPresent THEN "manual" ELSE "pr_merge"
    IN  /\ pc \in ManualSteps => taken = "manual"
        /\ pc \in PRMergeSteps => taken = "pr_merge"
        /\ pc # "start" => triggerType = taken
        /\ prFiles # <<>> => taken = "pr_merge"
        /\ \A i \in 1..Len(dnsCalls) :
              dnsCalls[i].method = IF taken = "manual" THEN "handleManualSync"
                                   ELSE "handlePRMerge"
        /\ \A i \in 1..Len(writes) :
              IsFailureRecord(writes[i].rec) => writes[i].rec.triggerType = taken

\* C4 witness: a run given only the manual-whois-file input has gone down
\* the PR-merge path as far as the change-set and has recorded its failure
C4_Witness ==
    /\ env.MANUAL_WHOIS_FILE # Unset
    /\ env.MANUAL_DOMAIN = Unset
    /\ env.MANUAL_OPERATION = Unset
    /\ prFiles # <<>>
    /\ pc = "rejected"
    /\ file # <<>>
    /\ file[1].triggerType = "pr_merge"

\* A manual run given neither a domain string nor a descriptor-file reference
NeitherManualInput ==
    /\ pc # "start"
    /\ triggerType = "manual"
    /\ env.MANUAL_DOMAIN \in {Unset, Set(<<>>)}
    /\ env.MANUAL_WHOIS_FILE \in {Unset, Set(<<>>)}

\* C5: such a run fails with the missing-input error before any descriptor
\* read and any collaborator call, and the one write it issues is a failure
\* record with a non-empty error and triggerType "manual", which is the
\* content of the result file once that write has succeeded.
C5_MissingManualInput ==
    NeitherManualInput =>
        /\ pc \in {"manual", "catch", "rejected"}
        /\ reads = <<>>
        /\ dnsCalls = <<>>
        /\ disk = <<>>
        /\ pc \in {"catch", "rejected"} =>
              /\ origin.by = "input"
              /\ origin.message[1] = "Either MANUAL_DOMAIN or MANUAL_WHOIS_FILE must be provided for manual trigger"
        /\ pc = "catch" => writes = <<>>
        /\ pc = "rejected" =>
              /\ Len(writes) = 1
              /\ IsFailureRecord(writes[1].rec)
              /\ writes[1].rec.error = origin.message
              /\ Len(writes[1].rec.error) > 0
              /\ writes[1].rec.triggerType = "manual"
              /\ writes[1].ok => file = <<writes[1].rec>>

\* C5 witness: the run has rejected and its failure record is on file
C5_Witness ==
    /\ NeitherManualInput
    /\ pc = "rejected"
    /\ file # <<>>
    /\ file[1].success = FALSE
    /\ file[1].triggerType = "manual"
    /\ file[1].error # <<>>

\* A PR-merge run whose single descriptor file has status removed
RemovedRun == triggerType = "pr_merge" /\ whoisFile.status = "removed"

\* The file name without its leading whois/ and its trailing .json
Stem(filename) == SubSeq(filename, 7, Len(filename) - 5)

\* C6: the request of a removed run has operation "delete" and the domain
\* (first label) and sld (the rest) of the file name; without an override
\* path nothing is read; a failed read or mismatching content never makes the
\* run fail; originalData is in the request exactly when the read succeeded.
C6_Deletion ==
    RemovedRun =>
        /\ ~Truthy(env.WHOIS_FILE_PATH) => reads = <<>>
        /\ Len(reads) <= 1
        /\ origin.by # "loader"
        /\ (pc # "pr_removed" /\ origin.by # "parser") =>
              (pc = "pr_delete" \/ Len(dnsCalls) = 1)
        /\ \A i \in 1..Len(dnsCalls) :
              LET d == dnsCalls[i].descriptor[1]
              IN  /\ d.operation = "delete"
                  /\ Dots(d.domain) = 0
                  /\ d.domain \o <<".">> \o d.sld = Stem(whoisFile.filename)
                  /\ DOMAIN d \subseteq {"domain", "sld", "operation", "originalData"}
                  /\ "originalData" \in DOMAIN d <=> (reads # <<>> /\ reads[1].ok)
                  /\ "originalData" \in DOMAIN d => d.originalData = reads[1].data

\* C6 witness: the override path held a descriptor of another domain; the
\* deletion was dispatched for the domain of the file name, with that content
\* as originalData
C6_Witness ==
    /\ RemovedRun
    /\ Len(dnsCalls) = 1
    /\ reads # <<>>
    /\ reads[1].ok
    /\ reads[1].data.domain = <<"z">>
    /\ dnsCalls[1].descriptor[1].domain = <<"a">>
    /\ dnsCalls[1].descriptor[1].originalData = reads[1].data

\* A PR-merge run whose single descriptor file has another status
OtherRun == triggerType = "pr_merge" /\ whoisFile # NoFile /\ whoisFile.status # "removed"

\* The operation override is absent, empty or "auto"
NoOverride == env.OPERATION \in {Unset, Set(""), Set("auto")}

\* C7: without an override the descriptor handed to the collaborator is the
\* loaded content; with one, its operation is the mapped override (delete
\* gives remove, add gives registration) and every other field is the loaded
\* one.
C7_OverrideFrame ==
    OtherRun =>
        \A i \in 1..Len(dnsCalls) :
            LET d == dnsCalls[i].descriptor[1]
                loaded == Last(reads).data
                op == env.OPERATION[1]
            IN  /\ Last(reads).ok
                /\ NoOverride => d = loaded
                /\ ~NoOverride =>
                      /\ d.operation = (CASE op = "delete" -> "remove"
                                          [] op = "add" -> "registration"
                                          [] OTHER -> op)
                      /\ DOMAIN d = DOMAIN loaded \cup {"operation"}
                      /\ \A f \in DOMAIN loaded \ {"operation"} : d[f] = loaded[f]

\* C7 witness: a descriptor without an operation field was loaded, the
\* override was "delete", and the descriptor dispatched has operation "remove"
C7_Witness ==
    /\ OtherRun
    /\ Len(dnsCalls) = 1
    /\ env.OPERATION = Set("delete")
    /\ "operation" \notin DOMAIN Last(reads).data
    /\ dnsCalls[1].descriptor[1].operation = "remove"
    /\ dnsCalls[1].descriptor[1].domain = Last(reads).data.domain

-----------------------------------------------------------------------------
(* mapOperationType on its own: a handler maps a few operations in turn *)

MaxOps == 2   \* number of operations mapped one after the other

Operations ==
    {"add", "update", "delete", "registration", "remove", "custom", "auto", "",
     "ADD", "constructor", "toString", "valueOf", "hasOwnProperty", "__proto__"}

InitMap ==
    /\ NoRun
    /\ pc = "call"
    /\ arg \in SeqsUpTo(Operations, MaxOps)
    /\ ret = <<>>

\* this.mapOperationType(operation) on the next operation of arg
CallMapOperationType ==
    /\ pc = "call"
    /\ Len(ret) < Len(arg)
    /\ ret' = Append(ret, mapOperationType(arg[Len(ret) + 1]))
    /\ UNCHANGED <<env, pc, triggerType, prFiles, whoisFile, whoisData, result, error,
                   origin, disk, reads, dnsCalls, writes, file, now, arg, previous>>

NextMap == CallMapOperationType

SpecMap == InitMap /\ [][NextMap]_vars

\* C11: add maps to registration, update to update, delete to remove,
\* registration to registration, remove to remove, and every other string
\* is returned as it is.
C11_MapOperation ==
    \A i \in 1..Len(ret) :
        ret[i] = (CASE arg[i] = "add" -> "registration"
                    [] arg[i] = "update" -> "update"
                    [] arg[i] = "delete" -> "remove"
                    [] arg[i] = "registration" -> "registration"
                    [] arg[i] = "remove" -> "remove"
                    [] OTHER -> arg[i])

-----------------------------------------------------------------------------
(* readWhoisFile on its own: one call on each state of the three candidates *)

FileStates == {Missing, Ok(DescAB), Ok(DescZB), BadJson, IoErr, Vanished}

ReadInputs ==
    [filePath : {FileAB, PathX \o Slash \o DomainAB \o JsonExt},
     cands : [1..3 -> FileStates]]

FsCall(op, i) == [op |-> op, at |-> i]

\* The calls of fs made by readWhoisFile, in order: fs.access of a
\* candidate and, when it succeeds, fs.readFile of the same candidate
fsCalls(cands) ==
    LET try(i) == IF cands[i].k = "missing" THEN <<FsCall("access", i)>>
                  ELSE <<FsCall("access", i), FsCall("readFile", i)>>
    IN  IF cands[1].k # "missing" THEN try(1)
        ELSE IF cands[2].k = "ok" THEN try(1) \o try(2)
        ELSE try(1) \o try(2) \o try(3)

InitRead ==
    /\ NoRun
    /\ pc = "call"
    /\ arg \in ReadInputs
    /\ ret = <<>>

CallReadWhoisFile ==
    /\ pc = "call"
    /\ ret' = <<[out |-> readWhoisFile(arg.filePath, arg.cands),
                 calls |-> fsCalls(arg.cands)]>>
    /\ pc' = "returned"
    /\ UNCHANGED <<env, triggerType, prFiles, whoisFile, whoisData, result, error,
                   origin, disk, reads, dnsCalls, writes, file, now, arg, previous>>

NextRead == CallReadWhoisFile

SpecRead == InitRead /\ [][NextRead]_vars

\* The error of the loader's taxonomy that a message stands for
ErrorKind(m) ==
    IF m[1] = "Invalid JSON format in whois file: " THEN "DescriptorMalformed"
    ELSE IF \E i \in 1..Len(m) :
              m[i] \in {"Whois file not found: ", "Whois file not found at any path: "}
    THEN "DescriptorNotFound"
    ELSE "DescriptorReadFailed"

\* Candidate locations at which the file exists, and those at which it loads
Existing(c) == {i \in 1..3 : c[i].k # "missing"}
Loadable(c) == {i \in 1..3 : c[i].k = "ok"}
First(S) == CHOOSE i \in S : \A j \in S : i <= j

\* C12: with the file at none of the three locations the call fails with
\* DescriptorNotFound; when the file it found (the first location where the
\* file exists) is not valid JSON it fails with DescriptorMalformed, whichever
\* location that is; when that file cannot be read it fails with
\* DescriptorReadFailed.
C12_LoaderErrors ==
    pc = "returned" =>
        LET c == arg.cands
            r == ret[1].out
        IN  /\ Existing(c) = {} => (~r.ok /\ ErrorKind(r.message) = "DescriptorNotFound")
            /\ (Existing(c) # {} /\ c[First(Existing(c))].k = "badjson") =>
                  (~r.ok /\ ErrorKind(r.message) = "DescriptorMalformed")
            /\ (Existing(c) # {} /\ c[First(Existing(c))].k = "ioerr") =>
                  (~r.ok /\ ErrorKind(r.message) = "DescriptorReadFailed")

\* The locations are tried in the order 1, 2, 3, starting with 1, with no call
\* of fs other than access and readFile
InOrder(calls) ==
    /\ calls[1] = FsCall("access", 1)
    /\ \A i \in 1..Len(calls) : calls[i].op \in {"access", "readFile"}
    /\ \A i \in 1..(Len(calls) - 1) : calls[i].at <= calls[i + 1].at

\* C13 as stated: the content returned is that of the earliest location at
\* which the load succeeds, and a location is tried only after every earlier
\* one has failed
C13_FirstSuccessWins ==
    pc = "returned" =>
        LET c == arg.cands
            r == ret[1].out
        IN  /\ InOrder(ret[1].calls)
            /\ r.ok <=> Loadable(c) # {}
            /\ r.ok => r.data = c[First(Loadable(c))].data

\* C13 amended: the locations are tried in the order workspace root,
\* cwd/../.., cwd; a file that exists under the workspace root is loaded from
\* there and, when it cannot be read or parsed, the call fails without trying
\* the other two; otherwise the content returned is that of the earlier of
\* the other two at which the load succeeds, cwd being tried only after the
\* load at cwd/../.. failed; fs is only asked to access and to read.
C13_OrderAmended ==
    pc = "returned" =>
        LET c == arg.cands
            r == ret[1].out
            calls == ret[1].calls
            tried == {calls[i].at : i \in 1..Len(calls)}
        IN  /\ InOrder(calls)
            /\ \A j \in tried : \A i \in 1..(j - 1) : i \in tried /\ c[i].k # "ok"
            /\ c[1].k # "missing" =>
                  /\ tried = {1}
                  /\ r.ok <=> c[1].k = "ok"
                  /\ r.ok => (r.data = c[1].data /\ r.at = 1)
            /\ c[1].k = "missing" =>
                  /\ 2 \in tried
                  /\ 3 \in tried <=> c[2].k # "ok"
                  /\ r.ok <=> Loadable(c) # {}
                  /\ r.ok => (r.at = First(Loadable(c)) /\ r.data = c[r.at].data)

\* C13 witness: nothing under the workspace root, an invalid file under
\* cwd/../.. and a valid one under cwd, whose content was returned after the
\* three locations were tried in order
C13_Witness ==
    /\ pc = "returned"
    /\ arg.cands = <<Missing, BadJson, Ok(DescZB)>>
    /\ ret[1].out.ok
    /\ ret[1].out.data = DescZB
    /\ ret[1].calls = <<FsCall("access", 1), FsCall("access", 2), FsCall("readFile", 2),
                        FsCall("access", 3), FsCall("readFile", 3)>>

-----------------------------------------------------------------------------
(* The manual path: failed loads, the synthesized descriptor, the options *)

ManualRun == pc # "start" /\ triggerType = "manual"

\* Positions of the descriptor reads that failed
FailedReads == {i \in 1..Len(reads) : ~reads[i].ok}

\* The descriptor built from the literal domain string
FromDomainString(e) ==
    LET p == parseDomain(JsString(e.MANUAL_DOMAIN[1]))
    IN  [domain |-> p.domain, sld |-> p.sld,
         operation |-> OrElse(e.MANUAL_OPERATION, "auto")]

\* C14: in a manual run without force-sync a failed descriptor read is the
\* last read, the run fails with that load error and the collaborator is
\* never called; with force-sync the run does not fail with a load error,
\* goes on without a descriptor from that read and, when every read failed
\* and a domain string exists, dispatches the domain and sld parsed from the
\* domain string.
C14_FailedLoad ==
    ManualRun =>
        \A i \in FailedReads :
            IF ~forceSync(env)
            THEN /\ i = Len(reads)
                 /\ dnsCalls = <<>>
                 /\ pc \in {"catch", "rejected"}
                 /\ origin = [by |-> "loader", message |-> reads[i].message]
            ELSE /\ origin.by # "loader"
                 /\ (i = Len(reads) /\ pc \in {"manual_domain", "manual_dispatch"})
                       => whoisData = <<>>
                 /\ (dnsCalls # <<>> /\ FailedReads = 1..Len(reads)
                        /\ Truthy(env.MANUAL_DOMAIN))
                       => /\ Len(dnsCalls[1].descriptor) = 1
                          /\ dnsCalls[1].descriptor[1].domain = FromDomainString(env).domain
                          /\ dnsCalls[1].descriptor[1].sld = FromDomainString(env).sld

\* C14 witness: under force-sync the read of the referenced file and the read
\* of the file named after the domain both failed, and the collaborator was
\* called with the descriptor of the domain string a.b
C14_Witness ==
    /\ ManualRun
    /\ forceSync(env)
    /\ Len(reads) = 2
    /\ FailedReads = {1, 2}
    /\ Len(dnsCalls) = 1
    /\ dnsCalls[1].descriptor[1].domain = <<"a">>
    /\ dnsCalls[1].descriptor[1].sld = <<"b">>


\* The operation requested for a manual run, "auto" when none is given
RequestedOperation ==
    IF env.MANUAL_OPERATION \in {Unset, Set("")} THEN "auto" ELSE env.MANUAL_OPERATION[1]

\* C15: in every manual dispatch the options are the mapped requested
\* operation (default "auto"), the force-sync flag and the actor ("unknown"
\* without one); when no descriptor was loaded and a domain string exists the
\* descriptor is the domain and sld parsed from the domain string plus the
\* requested operation, not mapped; a loaded descriptor is handed over as
\* loaded.
C15_ManualDispatch ==
    (ManualRun /\ dnsCalls # <<>>) =>
        LET call == dnsCalls[1]
            p == parseDomain(JsString(env.MANUAL_DOMAIN[1]))
        IN  /\ call.method = "handleManualSync"
            /\ call.options =
                  <<[operation |-> CASE RequestedOperation = "add" -> "registration"
                                     [] RequestedOperation = "update" -> "update"
                                     [] RequestedOperation = "delete" -> "remove"
                                     [] OTHER -> RequestedOperation,
                     forceSync |-> (env.FORCE_SYNC = Set("true")),
                     triggeredBy |-> IF env.GITHUB_ACTOR \in {Unset, Set("")}
                                     THEN "unknown" ELSE env.GITHUB_ACTOR[1]]>>
            /\ (FailedReads = 1..Len(reads) /\ Truthy(env.MANUAL_DOMAIN)) =>
                  /\ p.ok
                  /\ call.descriptor = <<[domain |-> p.domain, sld |-> p.sld,
                                          operation |-> RequestedOperation]>>
            /\ FailedReads # 1..Len(reads) =>
                  (Last(reads).ok /\ call.descriptor = <<Last(reads).data>>)

\* C15 witness: operation "add" was requested for the domain string a.b, no
\* descriptor could be loaded, and the collaborator got the descriptor with
\* operation "add" and the options with operation "registration"
C15_Witness ==
    /\ ManualRun
    /\ env.MANUAL_OPERATION = Set("add")
    /\ env.MANUAL_DOMAIN = Set(DomainAB)
    /\ reads # <<>>
    /\ FailedReads = 1..Len(reads)
    /\ Len(dnsCalls) = 1
    /\ dnsCalls[1].descriptor[1].operation = "add"
    /\ dnsCalls[1].options[1].operation = "registration"

-----------------------------------------------------------------------------
(* The PR-merge path: the title and the change-set *)

PRRun == pc # "start" /\ triggerType = "pr_merge"

NoTitle == env.PR_TITLE \in {Unset, Set("")}

\* A PR-merge run without a title: it fails with the missing-title error
\* with no change-set loaded, no descriptor read and no collaborator call, and
\* the one write it issues is a failure record with triggerType "pr_merge",
\* which is the content of the result file once that write has succeeded
MissingTitleFailure ==
    /\ pc \in {"pr_merge", "catch", "rejected"}
    /\ prFiles = <<>>
    /\ reads = <<>>
    /\ disk = <<>>
    /\ dnsCalls = <<>>
    /\ pc \in {"catch", "rejected"} =>
          origin = [by |-> "input",
                    message |-> <<"PR_TITLE environment variable is required">>]
    /\ pc = "catch" => writes = <<>>
    /\ pc = "rejected" =>
          /\ Len(writes) = 1
          /\ IsFailureRecord(writes[1].rec)
          /\ writes[1].rec.error = origin.message
          /\ writes[1].rec.triggerType = "pr_merge"
          /\ writes[1].ok => file = <<writes[1].rec>>

\* The run has gone on with the empty change-set and failed in the extractor
EmptyChangeSetFailure ==
    /\ pc \in {"catch", "rejected"}
    /\ origin = [by |-> "extractor", message |-> <<"No whois files found in PR changes">>]
    /\ whoisFile = NoFile
    /\ reads = <<>>
    /\ dnsCalls = <<>>

\* C16 as stated: a PR-merge run without a title fails as above; with a title
\* and a change-set that is not available (pr-files.json is absent, or cannot
\* be read as JSON) the change-set counts as empty and the run fails with the
\* no-file error of the extractor.
C16_TitleAndChangeSet ==
    PRRun =>
        /\ NoTitle => MissingTitleFailure
        /\ (prFiles # <<>> /\ prFiles[1].k \in {"absent", "bad"}) => EmptyChangeSetFailure

\* C16 amended: a PR-merge run without a title fails as above; with a title
\* and no pr-files.json the change-set counts as empty and the run fails with
\* the no-file error of the extractor; with a pr-files.json that cannot be
\* read as JSON the run fails with "Failed to read PR files: <cause>" before
\* the extractor runs; in neither case is a descriptor read or the
\* collaborator called.
C16_ChangeSetAmended ==
    PRRun =>
        /\ NoTitle => MissingTitleFailure
        /\ prFiles # <<>> => ~NoTitle
        /\ (prFiles # <<>> /\ prFiles[1].k = "absent") => EmptyChangeSetFailure
        /\ (prFiles # <<>> /\ prFiles[1].k = "bad") =>
              /\ pc \in {"catch", "rejected"}
              /\ origin.by = "changeset"
              /\ pc = "catch" => error = <<"Failed to read PR files: ">> \o origin.message
              /\ whoisFile = NoFile
              /\ reads = <<>>
              /\ dnsCalls = <<>>

\* C16 witness: a run with a title and no pr-files.json has rejected with the
\* no-file error, and its failure record is on file
C16_Witness ==
    /\ PRRun
    /\ ~NoTitle
    /\ prFiles = <<PrFilesAbsent>>
    /\ pc = "rejected"
    /\ origin.by = "extractor"
    /\ file # <<>>
    /\ file[1].triggerType = "pr_merge"
    /\ file[1].error = <<"No whois files found in PR changes">>


-----------------------------------------------------------------------------
(* Reads and collaborator calls of one run *)

\* C17: within one run no descriptor path is read twice, so that a failed
\* read is never tried again: it either ends the run or is downgraded, once.
C17_NoRetry ==
    /\ \A i, j \in 1..Len(reads) : i < j => reads[i].path # reads[j].path
    /\ \A i \in 1..Len(reads) :
          (~reads[i].ok /\ ~(ManualRun /\ forceSync(env)) /\ ~RemovedRun) => i = Len(reads)


-----------------------------------------------------------------------------
(* Two runs one after the other *)

\* The script is started again after a PR-merge run on a removed descriptor
\* file has settled: a new handler with nothing kept from the run before.
\* The environment, pr-files.json, the descriptor files and the result file
\* written by that run are as that run left them. The calls made by the run
\* before are kept in previous, for comparison only.
Rerun ==
    /\ Settled
    /\ triggerType = "pr_merge"
    /\ whoisFile.status = "removed"
    /\ previous = <<>>
    /\ previous' = <<[dnsCalls |-> dnsCalls, file |-> file]>>
    /\ pc' = "start"
    /\ triggerType' = ""
    /\ whoisFile' = NoFile
    /\ whoisData' = <<>>
    /\ result' = <<>>
    /\ error' = NoError
    /\ origin' = NoOrigin
    /\ reads' = <<>>
    /\ dnsCalls' = <<>>
    /\ writes' = <<>>
    /\ UNCHANGED <<env, prFiles, disk, file, now, arg, ret>>

NextRerun == Next \/ Rerun

SpecRerun == Init /\ [][NextRerun]_vars

\* This is the second of two runs
SecondRun == previous # <<>>

\* C18: when a PR-merge run on a removed descriptor file is run a second
\* time with the same title, change-set, override path and file content, then
\* once the second run is past its dispatch the requests it has made to the
\* collaborator are those the first run made, whatever the first run left in
\* the result file.
C18_SameDeletionTwice ==
    (SecondRun /\ RemovedRun /\ pc \in {"write", "catch", "resolved", "rejected"})
        => dnsCalls = previous[1].dnsCalls

\* C18 witness: both runs have asked for the deletion of a.b with the content
\* read as originalData, the second one with the first run's record in the
\* result file
C18_Witness ==
    /\ SecondRun
    /\ RemovedRun
    /\ pc = "write"
    /\ file # <<>>
    /\ Len(dnsCalls) = 1
    /\ Len(previous[1].dnsCalls) = 1
    /\ dnsCalls[1].descriptor[1].operation = "delete"
    /\ dnsCalls[1].descriptor[1].domain = <<"a">>
    /\ "originalData" \in DOMAIN dnsCalls[1].descriptor[1]
    /\ previous[1].dnsCalls[1] = dnsCalls[1]


-----------------------------------------------------------------------------
(* The calls of the DNS collaborator *)

\* Steps of a run that come before its call of the collaborator
BeforeDispatch == {"start"} \cup ManualSteps \cup PRMergeSteps

\* C19: the collaborator is called at most once in a run, and not before the
\* last step of the path taken, after which nothing is read; a run that fails
\* on its inputs, in the extractor, in parseDomain, on the change-set or on a
\* descriptor load has not called it; a collaborator result is written only
\* after the one call has returned that result.
C19_OneCallAfterReconciliation ==
    /\ Len(dnsCalls) <= 1
    /\ pc \in BeforeDispatch => dnsCalls = <<>>
    /\ dnsCalls # <<>> =>
          /\ pc \in {"write", "catch", "resolved", "rejected"}
          /\ pc \in {"catch", "rejected"} => origin.by \in {"dns", "writer"}
    /\ origin.by \in {"input", "extractor", "parser", "changeset", "loader"}
          => dnsCalls = <<>>
    /\ \A i \in 1..Len(writes) :
          ~IsFailureRecord(writes[i].rec) =>
              /\ Len(dnsCalls) = 1
              /\ result # <<>>
              /\ writes[i].rec = resultData(result[1], writes[i].rec.timestamp)

\* C19 witness: a PR-merge run on an added file has read the descriptor,
\* called the collaborator once and written the result it returned
C19_Witness ==
    /\ OtherRun
    /\ pc = "resolved"
    /\ Len(reads) = 1
    /\ reads[1].ok
    /\ Len(dnsCalls) = 1
    /\ dnsCalls[1].descriptor = <<reads[1].data>>
    /\ Len(writes) = 1
    /\ ~IsFailureRecord(writes[1].rec)
    /\ file = <<writes[1].rec>>

\* C20: a manual dispatch has no descriptor exactly when FORCE_SYNC is
\* "true", no domain string was given and the one read, that of the referenced
\* file, failed; in every other manual dispatch the descriptor is the content
\* loaded by the last read or the one built from the domain string.
C20_NullDescriptor ==
    (ManualRun /\ dnsCalls # <<>>) =>
        LET call == dnsCalls[1]
        IN  /\ call.descriptor = <<>> <=>
                  /\ env.FORCE_SYNC = Set("true")
                  /\ env.MANUAL_DOMAIN \in {Unset, Set(<<>>)}
                  /\ Len(reads) = 1
                  /\ ~reads[1].ok
                  /\ reads[1].path = manualFullPath(env)
            /\ call.descriptor # <<>> =>
                  \/ Last(reads).ok /\ call.descriptor = <<Last(reads).data>>
                  \/ /\ FailedReads = 1..Len(reads)
                     /\ call.descriptor = <<FromDomainString(env)>>

\* C20 witness: under force-sync, with a file reference that could not be
\* loaded and no domain string, the collaborator was called without a
\* descriptor
C20_Witness ==
    /\ ManualRun
    /\ env.FORCE_SYNC = Set("true")
    /\ ~Truthy(env.MANUAL_DOMAIN)
    /\ Len(reads) = 1
    /\ ~reads[1].ok
    /\ Len(dnsCalls) = 1
    /\ dnsCalls[1].descriptor = <<>>
    /\ dnsCalls[1].options[1].forceSync

=============================================================================
